---- MODULE Spec2Model ----
(***************************************************************************)
(* Model of the YouTube downloader backend:                                *)
(*   downloader.py   get_download_url (headless-browser link resolver)     *)
(*                   stream_download  (chunked byte streamer)              *)
(*   api_server.py   /api/download    (resolve, then stream to the client) *)
(*                                                                         *)
(* Strings.  A Python string is modelled as the sequence of the substrings *)
(* the code looks for (its tokens, in the order they occur) plus a count   *)
(* of other characters that match none of the searched substrings (pad).   *)
(* `x in s` is membership of a token, s.startswith is a test on the first  *)
(* token, len(s) is the sum of the token lengths plus the padding, and     *)
(* s.lower() maps every token to its lower-case form.                      *)
(***************************************************************************)
EXTENDS Integers, Sequences, FiniteSets, TLC

(* ------------------------------ bounds -------------------------------- *)
\* longest candidate string, in tokens, that the filter checks enumerate
MaxUrlTokens == 3
\* longest response body, in chunks, that the streamer receives
MaxChunks == 3
\* most stems a task payload lists
MaxStems == 2
\* longest video title, in characters, that the naming checks enumerate
MaxTitleLen == 4

(* ------------------------------ strings ------------------------------- *)
Schemes == {"https://", "HTTPS://"}
ExtTokens == {".mp4", ".mp3", ".wav", ".WAV", ".m4a", ".webm", ".flac", ".xml"}
WordTokens == {"download", "api", "cdn", "storage", "get"}
SiteTokens == {"y2down.cc/en"}
Tokens == Schemes \cup ExtTokens \cup WordTokens \cup SiteTokens
\* filler characters a candidate may carry besides its tokens
PadLens == {0, 25, 40}

TokLen(t) ==
    CASE t \in Schemes -> 8
      [] t \in {".mp4", ".mp3", ".wav", ".WAV", ".m4a", ".xml"} -> 4
      [] t \in {".webm", ".flac"} -> 5
      [] t = "download" -> 8
      [] t \in {"api", "cdn", "get"} -> 3
      [] t = "storage" -> 7
      [] t = "y2down.cc/en" -> 12
      [] t = "onclick" -> 7
      [] OTHER -> 1

\* str.lower() on one token
LowerTok(t) ==
    CASE t = "HTTPS://" -> "https://"
      [] t = ".WAV" -> ".wav"
      [] OTHER -> t

Str(toks, pad) == [toks |-> toks, pad |-> pad]

RECURSIVE SumLen(_)
SumLen(toks) == IF toks = <<>> THEN 0 ELSE TokLen(Head(toks)) + SumLen(Tail(toks))

\* len(s)
StrLen(s) == s.pad + SumLen(s.toks)

\* s.lower()
Lower(s) == Str([i \in 1..Len(s.toks) |-> LowerTok(s.toks[i])], s.pad)

\* needle in s   (case-sensitive, like Python's `in`)
Contains(s, needle) == \E i \in 1..Len(s.toks) : s.toks[i] = needle

\* any(n in s for n in needles)
ContainsAny(s, needles) == \E n \in needles : Contains(s, n)

\* s.startswith('http')
StartsWithHttp(s) == Len(s.toks) > 0 /\ s.toks[1] = "https://"

\* the not-a-string values of a variable that otherwise holds a string
None == [none |-> TRUE]
Unbound == [unbound |-> TRUE]

\* Python truthiness of an optional string
Truthy(s) == s # None /\ StrLen(s) > 0

\* the conversion page the resolver opens: "https://y2down.cc/enV8/youtube-wav"
base_url == Str(<<"https://", "y2down.cc/en">>, 14)

\* every candidate string of at most MaxUrlTokens tokens
TokSeqs == UNION {[1..n -> Tokens] : n \in 0..MaxUrlTokens}
Urls == {Str(ts, p) : ts \in TokSeqs, p \in PadLens}

(* ------------------- link filters (downloader.py) -------------------- *)
MediaExts == {".mp4", ".mp3", ".webm", ".m4a", ".wav", ".flac"}
SiteRoot == Str(<<"y2down.cc/">>, 0)

\* lines 229-233: an attribute value that mentions onclick is cut down to
\* the first URL in it (from the first "https://" up to a quote)
RECURSIVE UpToQuote(_)
UpToQuote(toks) ==
    IF toks = <<>> \/ Head(toks) = "'" THEN <<>>
    ELSE <<Head(toks)>> \o UpToQuote(Tail(toks))

RECURSIVE FromScheme(_)
FromScheme(toks) ==
    IF toks = <<>> THEN <<>>
    ELSE IF Head(toks) = "https://" THEN toks
    ELSE FromScheme(Tail(toks))

ExtractOnclick(href) ==
    IF Contains(href, "onclick") /\ FromScheme(href.toks) # <<>>
    THEN Str(UpToQuote(FromScheme(href.toks)), href.pad)
    ELSE href

\* is_valid with the length test written `>= 40`
is_valid_ge40(href) ==
    /\ Truthy(href)
    /\ StartsWithHttp(href)
    /\ StrLen(href) >= 40
    /\ ~Contains(href, "y2down.cc/en")
    /\ SiteRoot # href
    /\ \/ ContainsAny(Lower(href), MediaExts)
       \/ /\ Contains(Lower(href), "download")
          /\ ContainsAny(Lower(href), {"api", "cdn", "storage", "get"})
          /\ StrLen(href) > 50

\* lines 236-242: the element scan's validity filter
is_valid(href) ==
    /\ Truthy(href)
    /\ StartsWithHttp(href)
    /\ StrLen(href) > 40
    /\ ~Contains(href, "y2down.cc/en")
    /\ SiteRoot # href
    /\ \/ ContainsAny(Lower(href), MediaExts)
       \/ /\ Contains(Lower(href), "download")
          /\ ContainsAny(Lower(href), {"api", "cdn", "storage", "get"})
          /\ StrLen(href) > 50

\* match_valid without the test that keeps the site's own pages out
match_valid_site(match) ==
    /\ Truthy(match)
    /\ StrLen(match) > 40
    /\ SiteRoot # match
    /\ ~Contains(match, ".xml")
    /\ \/ ContainsAny(Lower(match), MediaExts)
       \/ /\ Contains(Lower(match), "download")
          /\ ContainsAny(Lower(match), {"api", "get"})
          /\ StrLen(match) > 50

\* lines 296-301: the validity filter of the page-source scan
match_valid(match) ==
    /\ Truthy(match)
    /\ StrLen(match) > 40
    /\ ~Contains(match, "y2down.cc/en")
    /\ SiteRoot # match
    /\ ~Contains(match, ".xml")
    /\ \/ ContainsAny(Lower(match), MediaExts)
       \/ /\ Contains(Lower(match), "download")
          /\ ContainsAny(Lower(match), {"api", "get"})
          /\ StrLen(match) > 50

\* lines 245-254 and 303-312: the if/elif chain that sets file_format;
\* prev is the value file_format holds when no branch is taken
infer_format(url, prev) ==
    IF Contains(Lower(url), ".mp4") THEN "mp4"
    ELSE IF Contains(Lower(url), ".mp3") THEN "mp3"
    ELSE IF Contains(Lower(url), ".wav") THEN "wav"
    ELSE IF Contains(Lower(url), ".m4a") THEN "m4a"
    ELSE IF Contains(Lower(url), ".webm") THEN "webm"
    ELSE prev

(* --------------------- the pages the browser sees --------------------- *)
\* lines 178 and 328: the extensions that mark the browser's own URL as a file
RedirectExts == {".mp4", ".mp3", ".wav", ".m4a", ".webm"}
\* line 185: the extensions of the direct-link pattern
DirectExts == {".mp4", ".mp3", ".wav", ".m4a"}

\* URLs the conversion site may show, link to or navigate to
PageUrls ==
    { Str(<<"https://", ".mp4">>, 40),
      Str(<<"https://", ".WAV">>, 40),
      Str(<<"https://", ".wav", ".mp4">>, 40),
      Str(<<"https://", ".flac">>, 40),
      Str(<<"https://", "download", "cdn">>, 40),
      Str(<<"https://", ".mp3", ".xml">>, 40),
      Str(<<"https://", ".webm">>, 0),
      Str(<<"https://">>, 40),
      base_url }

\* attribute values of the scanned elements (href, onclick or data-url)
ElemAttrs ==
    PageUrls \cup
    { Str(<<"onclick", "'", "https://", ".m4a", "'">>, 40),
      Str(<<>>, 0) }

(* number of entries of the selector and pattern lists *)
NumInputSelectors == 4
NumFormatSelectors == 10
NumDownloadSelectors == 11
NumPatterns == 7
\* buttons[:5]
ClickCap == 5
\* elements one selector finds, and matches one pattern finds, at most
MaxElems == 2
MaxMatches == 2

\* lines 284-292: the strings pattern number p can match in the page source
SourceMatches(p) ==
    LET L(u) == Lower(u) IN
    CASE p = 1 -> {u \in PageUrls : ContainsAny(L(u), MediaExts)}
      [] p = 2 -> {u \in PageUrls : Contains(L(u), "download") /\ ContainsAny(L(u), MediaExts)}
      [] p = 3 -> {u \in PageUrls : TRUE}
      [] p = 4 -> {u \in PageUrls : ContainsAny(L(u), DirectExts)}
      [] p = 5 -> {u \in PageUrls : Contains(L(u), "get")}
      [] p = 6 -> {u \in PageUrls : Contains(L(u), "download")}
      [] OTHER -> {u \in PageUrls : Contains(L(u), "y2down.cc/en") /\ Contains(L(u), "get")}

\* line 185: what the direct-link pattern can find in the page after a click
DirectMatches == {u \in PageUrls : ContainsAny(Lower(u), DirectExts)}

\* line 180
click_format(new_url) ==
    IF Contains(Lower(new_url), ".wav") THEN "wav"
    ELSE IF Contains(Lower(new_url), ".mp3") THEN "mp3"
    ELSE "mp4"

\* line 189
direct_format(url) == IF Contains(Lower(url), ".wav") THEN "wav" ELSE "mp3"

Formats == {"mp4", "mp3", "wav", "m4a", "webm"}
NoFormat == "None"
UnboundFormat == "unbound"

Triple(u, t, f) == [download_url |-> u, title |-> t, format |-> f]
NoTriple == [none |-> TRUE]

VARIABLES
    cand, elemOk, srcOk, fmt,        \* filter checks: candidate and verdicts
    pc, si, bi,                      \* get_download_url: position, loop indices
    driver,                          \* "none", "live" or "quit"
    browser_url,                     \* driver.current_url
    current_url, new_url, download_url, video_title, file_format,   \* locals
    ret, escaped,                    \* returned triple; exception left the call
    hpc, youtube_url, response,      \* request handler: position, input, answer
    audio_file, separated, archive,  \* /api/separate-stems: audio, mapping, zip
    spc, received, yielded,          \* stream_download: position, chunks in/out
    gen_raised,                      \* generate() raised into the WSGI server
    status_code,                     \* status of the upstream response, 0 before one
    stream_session,                  \* the requests.Session of stream_download
    credentials,                     \* AudioShakeSeparator: client id and secret set
    access_token, authed,            \* token held; an authentication has succeeded
    client_session,                  \* self.session of the separator
    sent,                            \* requests sent by the latest method call
    apc, task_id,                    \* separate_audio: position, uploaded task
    elapsed, poll_at, polls,         \* wait_for_completion: clock, last test, checks
    poll_status, final_status,       \* last status answer; what the wait returned
    task_info, stem_files, disk,     \* download_stems: payload, mapping, files written
    authenticated,                   \* session['authenticated'] of the client session
    request, ran                     \* latest request; its view function was entered

filterVars == <<cand, elemOk, srcOk, fmt>>
localVars == <<current_url, new_url, download_url, video_title, file_format>>
resolverVars == <<pc, si, bi, driver, browser_url, localVars, ret, escaped>>
sepVars == <<audio_file, separated, archive>>
handlerVars == <<hpc, youtube_url, response, sepVars>>
streamVars == <<spc, received, yielded, gen_raised, status_code, stream_session>>
tokenVars == <<credentials, access_token, authed, client_session, sent>>
waitVars == <<elapsed, poll_at, polls, poll_status, final_status>>
clientVars == <<tokenVars, apc, task_id, waitVars, task_info, stem_files, disk>>
sessionVars == <<authenticated, request, ran>>
vars == <<filterVars, resolverVars, handlerVars, streamVars, clientVars, sessionVars>>

(* --------------------- get_download_url (lines 24-345) ---------------- *)
\* `return u, t, f` inside the outer try: the finally clause runs next
Return(u, t, f) ==
    /\ ret' = Triple(u, t, f)
    /\ pc' = "finally"

\* Throw without the outer handler: the exception leaves the call
ThrowEscapes ==
    /\ pc' = "finally"
    /\ ret' = ret
    /\ escaped' = TRUE

\* lines 335-339: an exception reaches the outer handler
Throw ==
    /\ Return(None, None, NoFormat)
    /\ escaped' = escaped

\* lines 70-78: first attempt to start Chrome
Launch ==
    /\ UNCHANGED <<filterVars, clientVars, sessionVars, handlerVars, streamVars>>
    /\ pc = "launch"
    /\ \E ok \in BOOLEAN :
          IF ok THEN driver' = "live" /\ pc' = "load"
          ELSE driver' = driver /\ pc' = "launch_default"
    /\ UNCHANGED <<si, bi, browser_url, localVars, ret, escaped>>

\* lines 79-85: second attempt, with the default Chrome
LaunchDefault ==
    /\ UNCHANGED <<filterVars, clientVars, sessionVars, handlerVars, streamVars>>
    /\ pc = "launch_default"
    /\ \E ok \in BOOLEAN :
          IF ok THEN driver' = "live" /\ pc' = "load" /\ ret' = ret
          ELSE driver' = driver /\ Return(None, None, NoFormat)
    /\ UNCHANGED <<si, bi, browser_url, localVars, escaped>>

\* lines 88-99: driver.get(base_url)
LoadPage ==
    /\ UNCHANGED <<filterVars, clientVars, sessionVars, handlerVars, streamVars>>
    /\ pc = "load"
    /\ \E ok \in BOOLEAN :
          IF ok
          THEN /\ browser_url' = base_url
               /\ pc' = "find_input"
               /\ si' = 1
               /\ UNCHANGED <<ret, escaped>>
          ELSE Throw /\ UNCHANGED <<browser_url, si>>
    /\ UNCHANGED <<bi, driver, localVars>>

\* lines 101-112: try the input selectors in turn
FindInput ==
    /\ UNCHANGED <<filterVars, clientVars, sessionVars, handlerVars, streamVars>>
    /\ pc = "find_input"
    /\ \E outcome \in {"found", "timeout", "error"} :
          CASE outcome = "found" ->
                  pc' = "enter" /\ UNCHANGED <<si, ret, escaped>>
            [] outcome = "timeout" ->
                  IF si < NumInputSelectors
                  THEN si' = si + 1 /\ UNCHANGED <<pc, ret, escaped>>
                  ELSE Return(None, None, NoFormat) /\ UNCHANGED <<si, escaped>>
            [] OTHER -> Throw /\ si' = si
    /\ UNCHANGED <<bi, driver, browser_url, localVars>>

\* lines 114-129: type the URL and submit; a failing Enter key is swallowed
EnterUrl ==
    /\ UNCHANGED <<filterVars, clientVars, sessionVars, handlerVars, streamVars>>
    /\ pc = "enter"
    /\ \E ok \in BOOLEAN :
          IF ok
          THEN /\ pc' = "settle"
               /\ browser_url' \in PageUrls
               /\ UNCHANGED <<ret, escaped>>
          ELSE Throw /\ browser_url' = browser_url
    /\ UNCHANGED <<si, bi, driver, localVars>>

\* lines 131-145: read the URL the page settled on
Settle ==
    /\ UNCHANGED <<filterVars, clientVars, sessionVars, handlerVars, streamVars>>
    /\ pc = "settle"
    /\ \E ok \in BOOLEAN :
          IF ok
          THEN /\ current_url' = browser_url
               /\ pc' = "fmt_btn"
               /\ si' = 1
               /\ bi' = 1
               /\ UNCHANGED <<ret, escaped>>
          ELSE Throw /\ UNCHANGED <<current_url, si, bi>>
    /\ UNCHANGED <<driver, browser_url, new_url, download_url, video_title, file_format>>

\* the `continue` of an inner loop of the format-button phase
NextButton ==
    /\ pc' = "fmt_btn"
    /\ bi' = bi + 1
    /\ si' = si

\* the next turn of the selector loop of the format-button phase
NextFormatSelector ==
    /\ bi' = 1
    /\ IF si < NumFormatSelectors
       THEN si' = si + 1 /\ pc' = "fmt_btn"
       ELSE si' = si /\ pc' = "reset"

\* lines 163-172: the next candidate button of the current selector
FormatButton ==
    /\ UNCHANGED <<filterVars, clientVars, sessionVars, handlerVars, streamVars>>
    /\ pc = "fmt_btn"
    /\ \E outcome \in {"find_error", "none", "hidden", "error", "click"} :
          CASE outcome = "find_error" ->
                  /\ bi = 1
                  /\ NextFormatSelector
                  /\ browser_url' = browser_url
            [] outcome = "none" ->
                  /\ pc' = "fmt_after"
                  /\ UNCHANGED <<si, bi, browser_url>>
            [] outcome = "click" ->
                  /\ bi <= ClickCap
                  /\ pc' = "fmt_read"
                  /\ browser_url' \in PageUrls
                  /\ UNCHANGED <<si, bi>>
            [] OTHER ->
                  /\ bi <= ClickCap
                  /\ NextButton
                  /\ browser_url' = browser_url
    /\ UNCHANGED <<driver, localVars, ret, escaped>>

\* lines 174-175: new_url = driver.current_url; a failure is swallowed at 191
FormatRead ==
    /\ UNCHANGED <<filterVars, clientVars, sessionVars, handlerVars, streamVars>>
    /\ pc = "fmt_read"
    /\ \E ok \in BOOLEAN :
          IF ok
          THEN new_url' = browser_url /\ pc' = "fmt_check" /\ UNCHANGED <<si, bi>>
          ELSE new_url' = new_url /\ NextButton
    /\ UNCHANGED <<driver, browser_url, current_url, download_url, video_title,
                   file_format, ret, escaped>>

\* lines 176-193: was the browser sent to a download?  The return statements
\* read video_title, which is a local assigned only at line 204.  new_url is
\* not read again before line 175 reassigns it, so its value is dropped here.
FormatCheck ==
    /\ UNCHANGED <<filterVars, clientVars, sessionVars, handlerVars, streamVars>>
    /\ pc = "fmt_check"
    /\ IF new_url # current_url
       THEN IF ContainsAny(Lower(new_url), RedirectExts)
            THEN /\ download_url' = download_url
                 /\ IF video_title = Unbound
                    THEN NextButton /\ ret' = ret
                    ELSE /\ Return(new_url, video_title, click_format(new_url))
                         /\ UNCHANGED <<si, bi>>
            ELSE \E ok \in BOOLEAN : \E direct_url \in DirectMatches \cup {None} :
                    IF ~ok
                    THEN NextButton /\ UNCHANGED <<download_url, ret>>
                    ELSE IF direct_url # None
                    THEN /\ download_url' = direct_url
                         /\ IF video_title = Unbound
                            THEN NextButton /\ ret' = ret
                            ELSE /\ Return(direct_url, video_title, direct_format(direct_url))
                                 /\ UNCHANGED <<si, bi>>
                    ELSE /\ pc' = "fmt_after"
                         /\ UNCHANGED <<si, bi, download_url, ret>>
       ELSE /\ pc' = "fmt_after"
            /\ UNCHANGED <<si, bi, download_url, ret>>
    /\ new_url' = Unbound
    /\ UNCHANGED <<driver, browser_url, current_url, video_title, file_format, escaped>>

\* lines 194-197: `if download_url: break`, inside a bare `except: continue`
FormatAfter ==
    /\ UNCHANGED <<filterVars, clientVars, sessionVars, handlerVars, streamVars>>
    /\ pc = "fmt_after"
    /\ IF download_url # Unbound /\ Truthy(download_url)
       THEN pc' = "reset" /\ UNCHANGED <<si, bi>>
       ELSE NextFormatSelector
    /\ UNCHANGED <<driver, browser_url, localVars, ret, escaped>>

\* Reset with file_format starting as None instead of 'mp4'
ResetNoDefault ==
    /\ UNCHANGED <<filterVars, clientVars, sessionVars, handlerVars, streamVars>>
    /\ pc = "reset"
    /\ download_url' = None
    /\ video_title' = None
    /\ file_format' = NoFormat
    /\ pc' = "scan"
    /\ si' = 1
    /\ bi' = 1
    /\ current_url' = Unbound
    /\ UNCHANGED <<driver, browser_url, new_url, ret, escaped>>

\* lines 201-220; current_url is not read again before line 324 reassigns
\* it, so its value is dropped here
Reset ==
    /\ UNCHANGED <<filterVars, clientVars, sessionVars, handlerVars, streamVars>>
    /\ pc = "reset"
    /\ download_url' = None
    /\ video_title' = None
    /\ file_format' = "mp4"
    /\ pc' = "scan"
    /\ si' = 1
    /\ bi' = 1
    /\ current_url' = Unbound
    /\ UNCHANGED <<driver, browser_url, new_url, ret, escaped>>

\* the next turn of the selector loop of the element scan
NextDownloadSelector ==
    /\ bi' = 1
    /\ IF si < NumDownloadSelectors
       THEN si' = si + 1 /\ pc' = "scan"
       ELSE si' = si /\ pc' = "source_open"

\* lines 222-261: the next element of the current download selector
ScanElement ==
    /\ UNCHANGED <<filterVars, clientVars, sessionVars, handlerVars, streamVars>>
    /\ pc = "scan"
    /\ \E outcome \in {"error", "none", "element"} : \E attr \in ElemAttrs \cup {None} :
          IF outcome = "element"
          THEN /\ bi <= MaxElems
               /\ LET href == IF Truthy(attr) THEN ExtractOnclick(attr) ELSE attr IN
                  IF Truthy(attr) /\ is_valid(href)
                  THEN /\ download_url' = href
                       /\ file_format' = infer_format(href, file_format)
                       /\ pc' = "source_open"
                       /\ UNCHANGED <<si, bi>>
                  ELSE /\ bi' = bi + 1
                       /\ UNCHANGED <<pc, si, download_url, file_format>>
          ELSE /\ NextDownloadSelector
               /\ UNCHANGED <<download_url, file_format>>
    /\ UNCHANGED <<driver, browser_url, current_url, new_url, video_title, ret, escaped>>

\* SourceOpen that scans the page source after a resolving element scan too
SourceOpenAlways ==
    /\ UNCHANGED <<filterVars, clientVars, sessionVars, handlerVars, streamVars>>
    /\ pc = "source_open"
    /\ \E ok \in BOOLEAN :
          IF ok
          THEN pc' = "source" /\ si' = 1 /\ bi' = 1 /\ UNCHANGED <<ret, escaped>>
          ELSE Throw /\ UNCHANGED <<si, bi>>
    /\ UNCHANGED <<driver, browser_url, localVars>>

\* lines 263-292: read the page source unless the element scan resolved
SourceOpen ==
    /\ UNCHANGED <<filterVars, clientVars, sessionVars, handlerVars, streamVars>>
    /\ pc = "source_open"
    /\ IF Truthy(download_url)
       THEN pc' = "final" /\ UNCHANGED <<si, bi, ret, escaped>>
       ELSE \E ok \in BOOLEAN :
               IF ok
               THEN pc' = "source" /\ si' = 1 /\ bi' = 1 /\ UNCHANGED <<ret, escaped>>
               ELSE Throw /\ UNCHANGED <<si, bi>>
    /\ UNCHANGED <<driver, browser_url, localVars>>

\* the next turn of the pattern loop of the page-source scan
NextPattern ==
    /\ bi' = 1
    /\ IF si < NumPatterns
       THEN si' = si + 1 /\ pc' = "source"
       ELSE si' = si /\ pc' = "final"

\* lines 293-316: the next match of the current pattern
SourceMatch ==
    /\ UNCHANGED <<filterVars, clientVars, sessionVars, handlerVars, streamVars>>
    /\ pc = "source"
    /\ \E match \in SourceMatches(si) \cup {None} :
          IF match = None
          THEN NextPattern /\ UNCHANGED <<download_url, file_format>>
          ELSE /\ bi <= MaxMatches
               /\ IF match_valid(match)
                  THEN /\ download_url' = match
                       /\ file_format' = infer_format(match, file_format)
                       /\ pc' = "final"
                       /\ UNCHANGED <<si, bi>>
                  ELSE /\ bi' = bi + 1
                       /\ UNCHANGED <<pc, si, download_url, file_format>>
    /\ UNCHANGED <<driver, browser_url, current_url, new_url, video_title, ret, escaped>>

\* lines 327-328: the browser itself ended up on a media file
current_is_download(url) ==
    /\ url # base_url
    /\ ~Contains(url, "y2down.cc/en")
    /\ ContainsAny(Lower(url), RedirectExts)

\* lines 318-333
Final ==
    /\ UNCHANGED <<filterVars, clientVars, sessionVars, handlerVars, streamVars>>
    /\ pc = "final"
    /\ IF Truthy(download_url)
       THEN Return(download_url, video_title, file_format) /\ current_url' = current_url
       ELSE \E ok \in BOOLEAN :
               IF ok
               THEN /\ current_url' = browser_url
                    /\ IF current_is_download(browser_url)
                       THEN Return(browser_url, video_title, file_format)
                       ELSE Return(None, video_title, NoFormat)
               ELSE /\ current_url' = current_url
                    /\ Return(None, video_title, NoFormat)
    /\ UNCHANGED <<si, bi, driver, browser_url, new_url, download_url, video_title,
                   file_format, escaped>>

\* Finally quitting the browser only after a resolved link
FinallyOnSuccess ==
    /\ UNCHANGED <<filterVars, clientVars, sessionVars, handlerVars, streamVars>>
    /\ pc = "finally"
    /\ driver' = IF driver = "live" /\ Truthy(ret.download_url) THEN "quit" ELSE driver
    /\ pc' = "returned"
    /\ si' = 1
    /\ bi' = 1
    /\ current_url' = Unbound
    /\ new_url' = Unbound
    /\ download_url' = Unbound
    /\ video_title' = Unbound
    /\ file_format' = UnboundFormat
    /\ UNCHANGED <<browser_url, ret, escaped>>

\* lines 340-345: quit the browser if one was started; the frame is dropped
Finally ==
    /\ UNCHANGED <<filterVars, clientVars, sessionVars, handlerVars, streamVars>>
    /\ pc = "finally"
    /\ driver' = IF driver = "live" THEN "quit" ELSE driver
    /\ pc' = "returned"
    /\ si' = 1
    /\ bi' = 1
    /\ current_url' = Unbound
    /\ new_url' = Unbound
    /\ download_url' = Unbound
    /\ video_title' = Unbound
    /\ file_format' = UnboundFormat
    /\ UNCHANGED <<browser_url, ret, escaped>>


(* ----------------- /api/download (api_server.py 134-211) -------------- *)
\* str.strip(): drop the blanks at both ends
RECURSIVE LStrip(_)
LStrip(toks) ==
    IF toks # <<>> /\ Head(toks) = " " THEN LStrip(Tail(toks)) ELSE toks

RECURSIVE RStrip(_)
RStrip(toks) ==
    IF toks # <<>> /\ toks[Len(toks)] = " "
    THEN RStrip(SubSeq(toks, 1, Len(toks) - 1)) ELSE toks

Strip(s) == Str(RStrip(LStrip(s.toks)), s.pad)

\* the youtube_url values a request body may carry; None: no such key
RequestUrls ==
    { None,
      Str(<<>>, 0),
      Str(<<" ">>, 0),
      Str(<<"HTTPS://">>, 20),
      Str(<<" ", "https://", " ">>, 20) }

JsonFailure(status) == [kind |-> "json", success |-> FALSE, status |-> status]

\* a video title is its sequence of characters
Title(chars) == [chars |-> chars]
WordChars == {"a", "Z", "_", "M", "y", "S", "o", "n", "g"}
SpaceChars == {" "}
\* the characters the bounded titles are made of
TitleChars == {"a", "Z", "_", " ", "-", "!"}

\* re.sub(r'[-\s]+', '-', s): every run of hyphens and whitespace becomes '-'
RECURSIVE SkipRun(_)
SkipRun(s) ==
    IF s # <<>> /\ Head(s) \in SpaceChars \cup {"-"} THEN SkipRun(Tail(s)) ELSE s

RECURSIVE JoinRuns(_)
JoinRuns(s) ==
    IF s = <<>> THEN <<>>
    ELSE IF Head(s) \in SpaceChars \cup {"-"} THEN <<"-">> \o JoinRuns(SkipRun(s))
    ELSE <<Head(s)>> \o JoinRuns(Tail(s))

\* re.sub(r'[^\w\s-]', '', s)
Keep(c) == c \in WordChars \cup SpaceChars \cup {"-"}
StripOthers(s) == SelectSeq(s, Keep)

\* safe_title that leaves the runs of hyphens and whitespace as they are
safe_title_keeps_runs(chars) == StripOthers(chars)

\* lines 175-176
safe_title(chars) == JoinRuns(StripOthers(chars))

\* lines 173-180: the name the file is offered under, as its characters
\* followed by the dot and the format
download_filename(title, format) ==
    LET ext == IF format = NoFormat THEN "mp4" ELSE format
    IN  IF title # None /\ title.chars # <<>>
        THEN safe_title(title.chars) \o <<".", ext>>
        ELSE <<"video", ".", ext>>

\* lines 183-200
StreamResponse(title, format) ==
    [kind |-> "stream", success |-> TRUE, status |-> 200,
     filename |-> download_filename(title, format),
     content_type |-> IF format = "mp4" THEN "video/mp4" ELSE "application/octet-stream"]
NoResponse == [kind |-> "none", success |-> FALSE, status |-> 0]

(* ------------- the client session (api_server.py 27-128) ------------- *)
\* request.path as its directory and the name under it
Path(dir, name) == [dir |-> dir, name |-> name]
IndexPath == Path("/", "")
StatusPath == Path("/api/", "status")
DownloadPath == Path("/api/", "download")
SeparatePath == Path("/api/", "separate-stems")
LogoutPath == Path("/api/", "logout")
LoginPath == Path("/api/", "login")
\* the routes decorated with @login_required (93-94, 105-106, 124-125,
\* 134-135, 214-215)
ProtectedPaths == {IndexPath, StatusPath, DownloadPath, SeparatePath, LogoutPath}

\* line 38: the default of APP_PASSWORD
APP_PASSWORD == "CookieRocks"
NoPassword == ""
\* line 69: the passwords a login attempt may carry; "" for a body without one
Passwords == {APP_PASSWORD, "cookierocks", NoPassword}

Request(path, password) == [path |-> path, password |-> password]
NoRequest == Request(Path("", ""), NoPassword)
JsonSuccess == [kind |-> "json", success |-> TRUE, status |-> 200]
PageResponse == [kind |-> "page", success |-> TRUE, status |-> 200]
Redirect == [kind |-> "redirect", success |-> FALSE, status |-> 302]

\* login_required that lets every request through
login_required_open(path, flag) == "run"

\* lines 41-54: what the decorator does with a request
login_required(path, flag) ==
    IF ~flag
    THEN IF path.dir = "/static/" THEN "run"
         ELSE IF path = Path("/", "login") \/ path = LoginPath THEN "run"
         ELSE IF path.dir = "/api/" THEN "401"
         ELSE "redirect"
    ELSE "run"

\* lines 49-51: the answer of the decorator to a request it does not let in
Refuse(path) ==
    /\ ran' = FALSE
    /\ hpc' = "done"
    /\ response' = IF login_required(path, authenticated) = "401"
                   THEN JsonFailure(401) ELSE Redirect

\* lines 65-91: /api/login
LoginRequest ==
    /\ hpc = "idle"
    /\ \E json_ok \in BOOLEAN : \E password \in Passwords :
          /\ request' = Request(LoginPath, IF json_ok THEN password ELSE NoPassword)
          /\ IF ~json_ok
             THEN /\ response' = JsonFailure(500)
                  /\ authenticated' = authenticated
             ELSE IF password = APP_PASSWORD
             THEN /\ response' = JsonSuccess
                  /\ authenticated' = TRUE
             ELSE /\ response' = JsonFailure(401)
                  /\ authenticated' = authenticated
    /\ ran' = TRUE
    /\ hpc' = "done"
    /\ UNCHANGED <<filterVars, clientVars, resolverVars, streamVars, sepVars, youtube_url>>

\* lines 93-102 (/api/logout), 105-109 (/) and 124-131 (/api/status): the
\* protected routes that answer at once
PlainRequest ==
    /\ hpc = "idle"
    /\ \E path \in {LogoutPath, IndexPath, StatusPath} :
          /\ request' = Request(path, NoPassword)
          /\ IF login_required(path, authenticated) # "run"
             THEN Refuse(path) /\ authenticated' = authenticated
             ELSE /\ ran' = TRUE
                  /\ hpc' = "done"
                  /\ response' = IF path = IndexPath THEN PageResponse ELSE JsonSuccess
                  /\ authenticated' = IF path = LogoutPath THEN FALSE ELSE authenticated
    /\ UNCHANGED <<filterVars, clientVars, resolverVars, streamVars, sepVars, youtube_url>>

\* lines 138-165: validate the request, then call get_download_url
DownloadRequest ==
    /\ hpc = "idle"
    /\ request' = Request(DownloadPath, NoPassword)
    /\ authenticated' = authenticated
    /\ IF login_required(DownloadPath, authenticated) # "run"
       THEN Refuse(DownloadPath) /\ UNCHANGED <<youtube_url, pc>>
       ELSE /\ ran' = TRUE
            /\ \E json_ok \in BOOLEAN : \E url \in RequestUrls :
                  IF ~json_ok
                  THEN /\ response' = JsonFailure(500)
                       /\ hpc' = "done"
                       /\ UNCHANGED <<youtube_url, pc>>
                  ELSE IF url = None
                  THEN /\ response' = JsonFailure(400)
                       /\ hpc' = "done"
                       /\ UNCHANGED <<youtube_url, pc>>
                  ELSE /\ youtube_url' = Strip(url)
                       /\ IF ~Truthy(Strip(url)) \/ ~StartsWithHttp(Strip(url))
                          THEN /\ response' = JsonFailure(400)
                               /\ hpc' = "done"
                               /\ pc' = pc
                          ELSE /\ response' = response
                               /\ hpc' = "resolving"
                               /\ pc' = "launch"
    /\ UNCHANGED <<filterVars, clientVars, si, bi, driver, browser_url, localVars, ret, escaped,
                   streamVars, sepVars>>

\* DownloadRespond without the test of the resolved URL
DownloadRespondUnchecked ==
    /\ hpc = "resolving"
    /\ pc = "returned"
    /\ IF escaped
       THEN /\ response' = JsonFailure(500)
            /\ hpc' = "done"
            /\ spc' = spc
       ELSE /\ response' = StreamResponse(ret.title, ret.format)
            /\ hpc' = "streaming"
            /\ spc' = "created"
    /\ UNCHANGED <<filterVars, clientVars, sessionVars, resolverVars, sepVars, youtube_url, received, yielded, gen_raised,
                   status_code, stream_session>>

\* lines 165-211: answer with a failure, or with a streamed body
DownloadRespond ==
    /\ hpc = "resolving"
    /\ pc = "returned"
    /\ IF escaped
       THEN /\ response' = JsonFailure(500)
            /\ hpc' = "done"
            /\ spc' = spc
       ELSE IF ~Truthy(ret.download_url)
       THEN /\ response' = JsonFailure(500)
            /\ hpc' = "done"
            /\ spc' = spc
       ELSE /\ response' = StreamResponse(ret.title, ret.format)
            /\ hpc' = "streaming"
            /\ spc' = "created"
    /\ UNCHANGED <<filterVars, clientVars, sessionVars, resolverVars, sepVars, youtube_url, received, yielded, gen_raised,
                   status_code, stream_session>>

\* stem_separator.py 104: the stems of a separation; the bounded runs use
\* the first MaxStems of them
StemList == <<"vocals", "drums", "bass", "other">>
PayloadStems == {StemList[i] : i \in 1..(IF MaxStems < 4 THEN MaxStems ELSE 4)}

(* ------------- /api/separate-stems (api_server.py 212-357) ------------ *)
NoAudio == "none"
NotSeparated == [ran |-> FALSE, raised |-> FALSE, stems |-> {}, present |-> {}]
NoArchive == [built |-> FALSE, original |-> NoAudio, stems |-> {}]
ArchiveResponse == [kind |-> "archive", success |-> TRUE, status |-> 200]

\* lines 216-252: validate the request, then call get_download_url; a JSON
\* request carries no uploaded file, so without a URL it is refused
SeparateRequest ==
    /\ hpc = "idle"
    /\ request' = Request(SeparatePath, NoPassword)
    /\ authenticated' = authenticated
    /\ IF login_required(SeparatePath, authenticated) # "run"
       THEN Refuse(SeparatePath) /\ UNCHANGED <<youtube_url, pc>>
       ELSE /\ ran' = TRUE
            /\ \E json_ok \in BOOLEAN : \E url \in RequestUrls :
                  IF ~json_ok
                  THEN /\ response' = JsonFailure(500)
                       /\ hpc' = "done"
                       /\ UNCHANGED <<youtube_url, pc>>
                  ELSE LET given == IF url = None THEN Str(<<>>, 0) ELSE Strip(url)
                       IN  /\ youtube_url' = given
                           /\ IF ~Truthy(given) \/ ~StartsWithHttp(given)
                              THEN /\ response' = JsonFailure(400)
                                   /\ hpc' = "done"
                                   /\ pc' = pc
                              ELSE /\ response' = response
                                   /\ hpc' = "sep_resolving"
                                   /\ pc' = "launch"
    /\ UNCHANGED <<filterVars, clientVars, si, bi, driver, browser_url, localVars, ret, escaped,
                   streamVars, sepVars>>

\* lines 254-274: refuse an unresolved link, else fetch the audio into the
\* temporary directory
SeparateFetch ==
    /\ hpc = "sep_resolving"
    /\ pc = "returned"
    /\ IF escaped \/ ~Truthy(ret.download_url)
       THEN /\ response' = JsonFailure(500)
            /\ hpc' = "done"
            /\ audio_file' = audio_file
       ELSE \E fetched \in BOOLEAN :
               IF fetched
               THEN /\ audio_file' = (IF ret.format = NoFormat THEN "wav" ELSE ret.format)
                    /\ hpc' = "separating"
                    /\ response' = response
               ELSE /\ audio_file' = audio_file
                    /\ hpc' = "done"
                    /\ response' = JsonFailure(500)
    /\ UNCHANGED <<filterVars, clientVars, sessionVars, resolverVars, streamVars, youtube_url, separated,
                   archive>>

\* DemucsSeparator(model="htdemucs").separate_audio: it raises, or returns a
\* mapping of stem names to files, of which those in present are on disk
DemucsOutcomes ==
    {[ran |-> TRUE, raised |-> TRUE, stems |-> {}, present |-> {}]}
    \cup {[ran |-> TRUE, raised |-> FALSE, stems |-> m, present |-> d] :
             m \in SUBSET PayloadStems, d \in SUBSET PayloadStems}

\* no_stems that never finds the mapping empty
no_stems_never(stem_map) == FALSE

\* line 295: `if not stem_files`
no_stems(stem_map) == stem_map = {}

\* lines 287-344: run the separator; without stems answer 500, else zip the
\* original (305) and every stem whose file exists (319-321) and send it
SeparateRun ==
    /\ hpc = "separating"
    /\ \E out \in {o \in DemucsOutcomes : o.present \subseteq o.stems} :
          /\ separated' = out
          /\ IF out.raised \/ no_stems(out.stems)
             THEN /\ response' = JsonFailure(500)
                  /\ archive' = archive
             ELSE /\ archive' = [built |-> TRUE, original |-> audio_file,
                                 stems |-> out.present]
                  /\ response' = ArchiveResponse
    /\ hpc' = "done"
    /\ UNCHANGED <<filterVars, clientVars, sessionVars, resolverVars, streamVars, youtube_url, audio_file>>

(* ---------------- stream_download (downloader.py 348-367) ------------- *)
\* a chunk is a byte string; the empty one is falsy
Chunks == {<<>>, <<"a">>, <<"b">>}

\* statuses the upstream server can answer with once redirects are followed
StatusCodes == {200, 206, 300, 404, 503}

\* requests.Response.raise_for_status: HTTPError for 4xx and 5xx only
raise_for_status(code) == 400 <= code /\ code < 600

\* lines 350-359, run by the first next() on generate(): open the session,
\* GET the URL, raise_for_status(); the session is never closed
StreamOpen ==
    /\ hpc = "streaming"
    /\ spc = "created"
    /\ stream_session' = "open"
    /\ \E outcome \in {"response", "network_error"} : \E code \in StatusCodes :
          IF outcome = "response"
          THEN /\ status_code' = code
               /\ IF raise_for_status(code)
                  THEN spc' = "failed" /\ gen_raised' = TRUE
                  ELSE spc' = "body" /\ gen_raised' = gen_raised
          ELSE /\ status_code' = status_code
               /\ spc' = "failed"
               /\ gen_raised' = TRUE
    /\ hpc' = IF spc' = "failed" THEN "done" ELSE hpc
    /\ UNCHANGED <<filterVars, clientVars, sessionVars, resolverVars, sepVars, youtube_url, response, received, yielded>>

\* Emit without the `if chunk` test
EmitAlways(out, chunk) == Append(out, chunk)

\* lines 361-363 with api_server.py 187-188: `if chunk: yield chunk`
Emit(out, chunk) == IF chunk # <<>> THEN Append(out, chunk) ELSE out

\* lines 361-367: the next item of response.iter_content
StreamChunk ==
    /\ hpc = "streaming"
    /\ spc = "body"
    /\ \E outcome \in {"chunk", "end", "network_error"} : \E chunk \in Chunks :
          CASE outcome = "chunk" ->
                  /\ Len(received) < MaxChunks
                  /\ received' = Append(received, chunk)
                  /\ yielded' = Emit(yielded, chunk)
                  /\ UNCHANGED <<spc, hpc, gen_raised>>
            [] outcome = "end" ->
                  /\ spc' = "exhausted"
                  /\ hpc' = "done"
                  /\ UNCHANGED <<received, yielded, gen_raised>>
            [] OTHER ->
                  /\ spc' = "failed"
                  /\ hpc' = "done"
                  /\ gen_raised' = TRUE
                  /\ UNCHANGED <<received, yielded>>
    /\ UNCHANGED <<filterVars, clientVars, sessionVars, resolverVars, sepVars, youtube_url, response, status_code,
                   stream_session>>

(* ------- AudioShakeSeparator (stem_separator.py 23-292) --------------- *)
NoToken == "none"
NoTask == "none"
NoStatus == "unset"
NoInfo == [status |-> NoStatus, shape |-> "none", listed |-> {}]

\* line 157: the defaults of wait_for_completion, in seconds
max_wait_time == 600
poll_interval == 5
\* seconds one status request can take on top of the sleep (timeout 30 at 148)
Latencies == {0, 7}

\* values of the 'status' key the remote can answer with; "unknown" is the
\* default of line 173 for an answer without the key
StatusAnswers ==
    {"processing", "Pending", "unknown",
     "completed", "COMPLETED", "Done", "success",
     "failed", "ERROR"}
CheckAnswers == StatusAnswers \cup {"request_error"}

\* str.lower() on the status values
LowerStatus(s) ==
    CASE s = "Pending" -> "pending"
      [] s = "COMPLETED" -> "completed"
      [] s = "Done" -> "done"
      [] s = "ERROR" -> "error"
      [] OTHER -> s

\* poll_verdict that knows the single word completed
poll_verdict_one_word(s) ==
    IF LowerStatus(s) = "completed" THEN "completed"
    ELSE IF LowerStatus(s) \in {"failed", "error"} THEN "failed"
    ELSE "continue"

\* lines 173-181: the loop's reading of one status answer
poll_verdict(s) ==
    IF LowerStatus(s) \in {"completed", "done", "success"} THEN "completed"
    ELSE IF LowerStatus(s) \in {"failed", "error"} THEN "failed"
    ELSE "continue"

\* lines 210 and 286: `status not in ['completed', 'done', 'success']` on
\* the status as received
is_completed(s) == s \in {"completed", "done", "success"}

\* within_deadline that lets the deadline itself pass
within_deadline_inclusive(e) == e <= max_wait_time

\* line 171: the test of the while loop
within_deadline(e) == e < max_wait_time

\* a request on self.session; held: a bearer token is set when it is sent
Req(kind, token) == [kind |-> kind, held |-> token # NoToken]

AuthOutcomes == {"granted", "no_token", "request_error"}
\* the answers to draw for a call: with a token held no token request is
\* made (93, 143, 199), so its answer is not drawn
AuthOutcomesFor(token) == IF token = NoToken THEN AuthOutcomes ELSE {"granted"}

\* lines 43-81
authenticate(token, outcome) ==
    IF ~credentials
    THEN [ok |-> FALSE, token |-> token, granted |-> FALSE, reqs |-> {}]
    ELSE CASE outcome = "granted" ->
                [ok |-> TRUE, token |-> "token", granted |-> TRUE,
                 reqs |-> {Req("token", token)}]
           [] outcome = "no_token" ->
                [ok |-> FALSE, token |-> NoToken, granted |-> FALSE,
                 reqs |-> {Req("token", token)}]
           [] OTHER ->
                [ok |-> FALSE, token |-> token, granted |-> FALSE,
                 reqs |-> {Req("token", token)}]

\* ensure_auth that asks for a token on every call
ensure_auth_every_call(token, outcome) == authenticate(token, outcome)

\* lines 93-95, 143-145, 199-201: authenticate only when no token is held
ensure_auth(token, outcome) ==
    IF token # NoToken
    THEN [ok |-> TRUE, token |-> token, granted |-> FALSE, reqs |-> {}]
    ELSE authenticate(token, outcome)

\* lines 133-155
check_task_status(token, outcome, answer) ==
    LET a == ensure_auth(token, outcome) IN
    IF ~a.ok
    THEN [status |-> "error", token |-> a.token, granted |-> a.granted,
          reqs |-> a.reqs]
    ELSE [status |-> IF answer = "request_error" THEN "error" ELSE answer,
          token |-> a.token, granted |-> a.granted,
          reqs |-> a.reqs \cup {Req("status", a.token)}]

UploadOutcomes == {"task", "no_id", "request_error", "no_file"}

\* after_upload that starts polling whatever the upload returned
after_upload_always_waits(tid) == "wait"

\* lines 279-284: `if not task_id: return {}`
after_upload(tid) == IF tid = NoTask THEN "done" ELSE "wait"

\* upload_audio (83-131); direct: called by itself, else by separate_audio
\* (275-282), which leaves the call at once when no task id came back
Upload(direct) ==
    /\ client_session = "open"
    /\ apc = "idle"
    /\ \E ao \in AuthOutcomesFor(access_token) : \E up \in UploadOutcomes :
          LET a == ensure_auth(access_token, ao)
              posted == a.ok /\ up # "no_file"
              tid == IF posted /\ up = "task" THEN "task" ELSE NoTask
          IN  /\ access_token' = a.token
              /\ authed' = (authed \/ a.granted)
              /\ sent' = a.reqs \cup (IF posted THEN {Req("upload", a.token)} ELSE {})
              /\ task_id' = tid
              /\ apc' = IF direct THEN "idle" ELSE after_upload(tid)
    /\ elapsed' = 0
    /\ poll_at' = 0
    /\ polls' = 0
    /\ poll_status' = NoStatus
    /\ final_status' = NoStatus
    /\ task_info' = NoInfo
    /\ stem_files' = {}
    /\ disk' = {}
    /\ UNCHANGED <<filterVars, resolverVars, handlerVars, streamVars, sessionVars, credentials,
                   client_session>>

CallUpload == Upload(TRUE)
SepUpload == Upload(FALSE)

\* check_task_status called by itself
CallStatus ==
    /\ client_session = "open"
    /\ apc = "idle"
    /\ \E ao \in AuthOutcomesFor(access_token) : \E answer \in CheckAnswers :
          LET c == check_task_status(access_token, ao, answer)
          IN  /\ access_token' = c.token
              /\ authed' = (authed \/ c.granted)
              /\ sent' = c.reqs
              /\ poll_status' = c.status
    /\ apc' = "idle"
    /\ task_id' = NoTask
    /\ elapsed' = 0
    /\ poll_at' = 0
    /\ polls' = 0
    /\ final_status' = NoStatus
    /\ task_info' = NoInfo
    /\ stem_files' = {}
    /\ disk' = {}
    /\ UNCHANGED <<filterVars, resolverVars, handlerVars, streamVars, sessionVars, credentials,
                   client_session>>

\* wait_for_completion (157-186): one turn of the loop, or its end at the
\* deadline
SepPoll ==
    /\ apc = "wait"
    /\ IF within_deadline(elapsed)
       THEN \E ao \in AuthOutcomesFor(access_token) : \E answer \in CheckAnswers : \E lat \in Latencies :
               LET c == check_task_status(access_token, ao, answer)
               IN  /\ access_token' = c.token
                   /\ authed' = (authed \/ c.granted)
                   /\ sent' = c.reqs
                   /\ poll_status' = c.status
                   /\ polls' = polls + 1
                   /\ poll_at' = elapsed
                   /\ IF poll_verdict(c.status) = "continue"
                      THEN /\ elapsed' = elapsed + lat + poll_interval
                           /\ UNCHANGED <<apc, final_status>>
                      ELSE /\ final_status' = c.status
                           /\ apc' = "waited"
                           /\ elapsed' = elapsed
       ELSE /\ final_status' = "timeout"
            /\ apc' = "waited"
            /\ UNCHANGED <<access_token, authed, sent, poll_status, polls, poll_at, elapsed>>
    /\ UNCHANGED <<filterVars, resolverVars, handlerVars, streamVars, sessionVars, credentials,
                   client_session, task_id, task_info, stem_files, disk>>

\* separate_audio 286-292: give up unless the wait returned a completed
\* status; the clock of the finished wait is not read again
SepAfterWait ==
    /\ apc = "waited"
    /\ apc' = IF is_completed(final_status) THEN "download" ELSE "done"
    /\ elapsed' = 0
    /\ poll_at' = 0
    /\ UNCHANGED <<filterVars, resolverVars, handlerVars, streamVars, sessionVars, tokenVars, task_id,
                   polls, poll_status, final_status, task_info, stem_files, disk>>

\* lines 213-237: the stems a payload lists: those of 'stems' that carry a
\* URL, else those of 'download_urls'
listed_stems(stems, urls) == IF stems # {} THEN stems ELSE urls

\* the task payloads: 'stems' and 'download_urls' as the sets of stems they
\* give a URL for ('download_urls' is read only when 'stems' gave none,
\* line 232), or a payload whose 'download_urls' is no mapping
Payloads ==
    {[shape |-> "malformed", stems |-> {}, urls |-> {}]}
    \cup {[shape |-> "mapping", stems |-> m, urls |-> {}] : m \in SUBSET PayloadStems}
    \cup {[shape |-> "mapping", stems |-> {}, urls |-> u] : u \in SUBSET PayloadStems}

\* download_stems (188-244) with _download_file (246-262): written is the
\* set of stems whose GET succeeded; every listed stem enters the mapping
Download(direct) ==
    /\ client_session = "open"
    /\ apc = (IF direct THEN "idle" ELSE "download")
    /\ \E ao \in AuthOutcomesFor(access_token) : \E answer \in CheckAnswers :
       \E payload \in Payloads :
       \E written \in SUBSET listed_stems(payload.stems, payload.urls) :
          LET a == ensure_auth(access_token, ao)
              c == check_task_status(a.token, ao, answer)
              listed == listed_stems(payload.stems, payload.urls)
              fetch == a.ok /\ is_completed(c.status) /\ listed # {}
          IN  /\ access_token' = a.token
              /\ authed' = (authed \/ a.granted)
              /\ IF ~a.ok
                 THEN /\ sent' = a.reqs
                      /\ task_info' = NoInfo
                 ELSE /\ sent' = a.reqs \cup c.reqs
                                 \cup (IF fetch THEN {Req("download", a.token)} ELSE {})
                      /\ task_info' = [status |-> c.status, shape |-> payload.shape,
                                       listed |-> listed]
              /\ stem_files' = IF fetch THEN listed ELSE {}
              /\ disk' = IF fetch THEN written ELSE {}
    /\ apc' = IF direct THEN "idle" ELSE "done"
    /\ IF direct
       THEN /\ task_id' = NoTask
            /\ polls' = 0
            /\ poll_status' = NoStatus
            /\ final_status' = NoStatus
       ELSE UNCHANGED <<task_id, polls, poll_status, final_status>>
    /\ UNCHANGED <<filterVars, resolverVars, handlerVars, streamVars, sessionVars, credentials,
                   client_session, elapsed, poll_at>>

CallDownload == Download(TRUE)
SepDownload == Download(FALSE)

\* lines 278-292: separate_audio hands its mapping to the caller; the
\* separator is free for the next call
SepReturn ==
    /\ apc = "done"
    /\ apc' = "idle"
    /\ task_id' = NoTask
    /\ polls' = 0
    /\ poll_status' = NoStatus
    /\ final_status' = NoStatus
    /\ task_info' = NoInfo
    /\ stem_files' = {}
    /\ disk' = {}
    /\ UNCHANGED <<filterVars, resolverVars, handlerVars, streamVars, sessionVars, tokenVars, elapsed,
                   poll_at>>

\* the request has been answered; the server takes the next one of the
\* same client session, with fresh locals
NextRequest ==
    /\ hpc = "done"
    /\ hpc' = "idle"
    /\ youtube_url' = None
    /\ response' = NoResponse
    /\ audio_file' = NoAudio
    /\ separated' = NotSeparated
    /\ archive' = NoArchive
    /\ pc' = "idle"
    /\ si' = 1
    /\ bi' = 1
    /\ driver' = "none"
    /\ browser_url' = base_url
    /\ ret' = NoTriple
    /\ escaped' = FALSE
    /\ spc' = "idle"
    /\ received' = <<>>
    /\ yielded' = <<>>
    /\ gen_raised' = FALSE
    /\ status_code' = 0
    /\ stream_session' = "none"
    /\ request' = NoRequest
    /\ ran' = FALSE
    /\ UNCHANGED <<filterVars, clientVars, localVars, authenticated>>

(* --------------------------- specifications --------------------------- *)
FilterIdle ==
    /\ cand = Str(<<>>, 0)
    /\ elemOk = "unset"
    /\ srcOk = "unset"
    /\ fmt = "unset"

ResolverIdle ==
    /\ pc = "idle"
    /\ si = 1
    /\ bi = 1
    /\ driver = "none"
    /\ browser_url = base_url
    /\ current_url = Unbound
    /\ new_url = Unbound
    /\ download_url = Unbound
    /\ video_title = Unbound
    /\ file_format = UnboundFormat
    /\ ret = NoTriple
    /\ escaped = FALSE

ServerIdle ==
    /\ hpc = "idle"
    /\ youtube_url = None
    /\ response = NoResponse
    /\ audio_file = NoAudio
    /\ separated = NotSeparated
    /\ archive = NoArchive
    /\ spc = "idle"
    /\ received = <<>>
    /\ yielded = <<>>
    /\ gen_raised = FALSE
    /\ status_code = 0
    /\ stream_session = "none"

\* no separator has been constructed
ClientIdle ==
    /\ credentials = FALSE
    /\ access_token = NoToken
    /\ authed = FALSE
    /\ client_session = "none"
    /\ sent = {}
    /\ apc = "idle"
    /\ task_id = NoTask
    /\ elapsed = 0
    /\ poll_at = 0
    /\ polls = 0
    /\ poll_status = NoStatus
    /\ final_status = NoStatus
    /\ task_info = NoInfo
    /\ stem_files = {}
    /\ disk = {}

\* a client session without the cookie
SessionIdle ==
    /\ authenticated = FALSE
    /\ request = NoRequest
    /\ ran = FALSE

Init == FilterIdle /\ ResolverIdle /\ ServerIdle /\ ClientIdle /\ SessionIdle

Next ==
    \/ DownloadRequest
    \/ Launch
    \/ LaunchDefault
    \/ LoadPage
    \/ FindInput
    \/ EnterUrl
    \/ Settle
    \/ FormatButton
    \/ FormatRead
    \/ FormatCheck
    \/ FormatAfter
    \/ Reset
    \/ ScanElement
    \/ SourceOpen
    \/ SourceMatch
    \/ Final
    \/ Finally
    \/ DownloadRespond
    \/ StreamOpen
    \/ StreamChunk
    \/ SeparateRequest
    \/ SeparateFetch
    \/ SeparateRun
    \/ LoginRequest
    \/ PlainRequest
    \/ NextRequest

Spec == Init /\ [][Next]_vars

(* ------- the link filters applied to every bounded candidate ---------- *)
Verdict(b) == IF b THEN "accept" ELSE "reject"

\* put one candidate through the element filter (236-242), the page-source
\* filter (296-301) and the format chain (245-254) with its default (205)
Classify ==
    /\ elemOk = "unset"
    /\ elemOk' = Verdict(is_valid(cand))
    /\ srcOk' = Verdict(match_valid(cand))
    /\ fmt' = infer_format(cand, "mp4")
    /\ UNCHANGED <<cand, resolverVars, handlerVars, streamVars, clientVars, sessionVars>>

InitFilter ==
    /\ cand \in Urls
    /\ elemOk = "unset"
    /\ srcOk = "unset"
    /\ fmt = "unset"
    /\ ResolverIdle
    /\ ServerIdle
    /\ ClientIdle
    /\ SessionIdle

NextFilter == Classify

SpecFilter == InitFilter /\ [][NextFilter]_vars

(* ------- one AudioShakeSeparator and the calls made on it ------------- *)
\* lines 26-41: a separator as __init__ leaves it, with or without
\* credentials in the environment
InitClient ==
    /\ FilterIdle
    /\ ResolverIdle
    /\ ServerIdle
    /\ SessionIdle
    /\ credentials \in BOOLEAN
    /\ access_token = NoToken
    /\ authed = FALSE
    /\ client_session = "open"
    /\ sent = {}
    /\ apc = "idle"
    /\ task_id = NoTask
    /\ elapsed = 0
    /\ poll_at = 0
    /\ polls = 0
    /\ poll_status = NoStatus
    /\ final_status = NoStatus
    /\ task_info = NoInfo
    /\ stem_files = {}
    /\ disk = {}

NextClient ==
    \/ CallUpload
    \/ CallStatus
    \/ CallDownload
    \/ SepUpload
    \/ SepPoll
    \/ SepAfterWait
    \/ SepDownload
    \/ SepReturn

SpecClient == InitClient /\ [][NextClient]_vars

(* ------- /api/download answering for every bounded resolver result --- *)
MySong == <<"M", "y", " ", "S", "o", "n", "g">>
Titles ==
    {None} \cup {Title(MySong)}
    \cup {Title(cs) : cs \in UNION {[1..n -> TitleChars] : n \in 0..MaxTitleLen}}

\* api_server.py 165: get_download_url has handed back a link, a title or
\* None, and a format or None
InitNaming ==
    /\ FilterIdle
    /\ ClientIdle
    /\ authenticated = TRUE
    /\ request = Request(DownloadPath, NoPassword)
    /\ ran = TRUE
    /\ pc = "returned"
    /\ si = 1
    /\ bi = 1
    /\ driver = "quit"
    /\ browser_url = base_url
    /\ current_url = Unbound
    /\ new_url = Unbound
    /\ download_url = Unbound
    /\ video_title = Unbound
    /\ file_format = UnboundFormat
    /\ escaped = FALSE
    /\ \E t \in Titles : \E f \in Formats \cup {NoFormat} :
          ret = Triple(Str(<<"https://", ".mp4">>, 40), t, f)
    /\ hpc = "resolving"
    /\ youtube_url = Str(<<"https://">>, 20)
    /\ response = NoResponse
    /\ audio_file = NoAudio
    /\ separated = NotSeparated
    /\ archive = NoArchive
    /\ spc = "idle"
    /\ received = <<>>
    /\ yielded = <<>>
    /\ gen_raised = FALSE
    /\ status_code = 0
    /\ stream_session = "none"

NextNaming == DownloadRespond

SpecNaming == InitNaming /\ [][NextNaming]_vars

(* ------------------------------- claims ------------------------------- *)
NullTriple == Triple(None, None, NoFormat)
Exited == pc \in {"finally", "returned"}

\* C1: whenever get_download_url has returned, a browser session it started
\* has been quit, whatever the exit path was.
C1_SessionQuitBeforeReturn == pc = "returned" => driver # "live"

\* C1 witness: the call came back without a link and its browser is quit
C1_QuitAfterFailure ==
    pc = "returned" /\ driver = "quit" /\ ret.download_url = None

\* C2: no exception leaves get_download_url; a result without a link is the
\* all-null triple, and so is the result when no browser could be started or
\* the call ended before the scans began.
C2_NeverRaisesNullTriple ==
    /\ ~escaped
    /\ Exited =>
          /\ ret # NoTriple
          /\ ret.download_url = None => ret = NullTriple
          /\ driver = "none" => ret = NullTriple
          /\ (pc = "finally" /\ video_title = Unbound) => ret = NullTriple

\* C2 witness: Chrome could not be started and the all-null triple came back
C2_LaunchFailureReturnsNull ==
    pc = "returned" /\ driver = "none" /\ ret = NullTriple /\ ~escaped

\* C3: when the resolver returned no download_url, /api/download answers
\* with a JSON failure of status 500, stream_download is never called and
\* no chunk is emitted.
C3_UnresolvedIsStructuredFailure ==
    (hpc \in {"streaming", "done"} /\ pc = "returned" /\ ~Truthy(ret.download_url)) =>
        /\ response = JsonFailure(500)
        /\ spc = "idle"
        /\ received = <<>>
        /\ yielded = <<>>

\* C3 witness: an unresolved request was answered
C3_UnresolvedAnswered ==
    /\ hpc = "done"
    /\ pc = "returned"
    /\ ret.download_url = None
    /\ response = JsonFailure(500)

\* C4: a failure of stream_download reaches the caller as a JSON failure
\* response and is never raised while the body of a started success
\* response is generated.
C4_StreamFailureIsStructured ==
    spc = "failed" =>
        /\ response.kind = "json"
        /\ ~response.success
        /\ ~gen_raised

\* C5: every returned triple with a download_url has a format among mp4,
\* mp3, wav, m4a, webm.
C5_ResolvedHasFormat ==
    (Exited /\ ret # NoTriple /\ ret.download_url # None) => ret.format \in Formats

\* C5 witness: a link without a listed extension came back as mp4
C5_DefaultFormatReturned ==
    /\ pc = "returned"
    /\ ret.download_url = Str(<<"https://", ".flac">>, 40)
    /\ ret.format = "mp4"

\* the first of .mp4, .mp3, .wav, .m4a, .webm occurring in the lower-cased
\* URL, mp4 if none does
FirstListedFormat(url) ==
    LET order == <<"mp4", "mp3", "wav", "m4a", "webm">>
        low == {LowerTok(url.toks[i]) : i \in 1..Len(url.toks)}
        hits == {i \in 1..Len(order) : ("." \o order[i]) \in low}
    IN IF hits = {} THEN "mp4"
       ELSE order[CHOOSE i \in hits : \A j \in hits : i <= j]

\* C6: whichever strategy resolved the URL, the returned format is the first
\* listed extension occurring in it, mp4 if none occurs.
C6_FormatIsFirstListed ==
    (Exited /\ ret # NoTriple /\ ret.download_url # None) =>
        ret.format = FirstListedFormat(ret.download_url)

\* C7: in the format-button phase, once a click has sent the browser to a
\* URL with a media extension, or to a page whose source holds a direct
\* media link, the call returns that URL at once.
C7_ClickRedirectReturns ==
    [][ /\ pc = "fmt_check"
        /\ new_url # current_url
        /\ \/ ContainsAny(Lower(new_url), RedirectExts)
           \/ download_url' # download_url
        => /\ pc' = "finally"
           /\ ret'.download_url =
                 IF ContainsAny(Lower(new_url), RedirectExts)
                 THEN new_url ELSE download_url' ]_vars

\* the tokens of a string, and of its lower-case form, as sets
Parts(s) == {s.toks[i] : i \in 1..Len(s.toks)}
LowParts(s) == {LowerTok(t) : t \in Parts(s)}

\* the string lies on the site's listing path: "https://y2down.cc/en..."
OnListingPath(s) ==
    Len(s.toks) >= 2 /\ s.toks[1] = "https://" /\ s.toks[2] = "y2down.cc/en"

\* the media-or-download test both statements of C8 share
MediaOrDownload(s) ==
    \/ LowParts(s) \cap MediaExts # {}
    \/ /\ "download" \in LowParts(s)
       /\ LowParts(s) \cap {"api", "cdn", "storage", "get"} # {}
       /\ StrLen(s) >= 51

\* C8 as stated: the element scan accepts a candidate exactly when it starts
\* with http, is longer than 40, neither is nor starts with the site's
\* listing path, and passes the media-or-download test.
C8_AcceptsUnlessOnListingPath ==
    elemOk # "unset" =>
        (elemOk = "accept" <=>
            /\ Len(cand.toks) >= 1 /\ cand.toks[1] = "https://"
            /\ StrLen(cand) >= 41
            /\ cand # base_url
            /\ ~OnListingPath(cand)
            /\ MediaOrDownload(cand))

\* C8 amended: the element scan accepts a candidate exactly when it starts
\* with lower-case http, is longer than 40, contains the listing path
\* y2down.cc/en nowhere, and passes the media-or-download test; so links on
\* the listing path are rejected, and a media URL of 41 or more characters
\* that starts with http and does not mention the listing path is accepted.
C8_AcceptsUnlessListingPathOccurs ==
    elemOk # "unset" =>
        /\ elemOk = "accept" <=>
              /\ Len(cand.toks) >= 1 /\ cand.toks[1] = "https://"
              /\ StrLen(cand) >= 41
              /\ "y2down.cc/en" \notin Parts(cand)
              /\ MediaOrDownload(cand)
        /\ OnListingPath(cand) => elemOk = "reject"
        /\ ( /\ Len(cand.toks) >= 1 /\ cand.toks[1] = "https://"
             /\ StrLen(cand) >= 41
             /\ LowParts(cand) \cap MediaExts # {}
             /\ "y2down.cc/en" \notin Parts(cand) ) => elemOk = "accept"

\* C8 witness: a crafted media URL of exactly 41 characters was accepted
C8_CraftedUrlOf41Accepted ==
    /\ elemOk = "accept"
    /\ StrLen(cand) = 41
    /\ ".mp4" \in Parts(cand)

\* C9 as stated: the page-source scan accepts a candidate (here one that
\* starts with http, as both scans can meet) exactly when the element scan
\* accepts it.
C9_SameFilter == (elemOk # "unset" /\ StartsWithHttp(cand)) => srcOk = elemOk

\* C9 amended: the page-source filter is a narrower variant of the element
\* filter.  A candidate starting with http that it accepts is accepted by
\* the element scan too; a candidate only the element scan accepts contains
\* .xml, or has no media extension and neither api nor get.
C9_SourceFilterNarrower ==
    elemOk # "unset" =>
        /\ (srcOk = "accept" /\ StartsWithHttp(cand)) => elemOk = "accept"
        /\ (elemOk = "accept" /\ srcOk = "reject") =>
              \/ ".xml" \in Parts(cand)
              \/ /\ LowParts(cand) \cap MediaExts = {}
                 /\ LowParts(cand) \cap {"api", "get"} = {}

\* C9 witness: a download link on a cdn host passes the element filter only
C9_CdnLinkPassesElementFilterOnly ==
    /\ elemOk = "accept"
    /\ srcOk = "reject"
    /\ "cdn" \in Parts(cand)
    /\ ".xml" \notin Parts(cand)

\* the non-empty chunks of a body, in order
RECURSIVE NonEmpty(_)
NonEmpty(chunks) ==
    IF chunks = <<>> THEN <<>>
    ELSE IF Head(chunks) = <<>> THEN NonEmpty(Tail(chunks))
    ELSE <<Head(chunks)>> \o NonEmpty(Tail(chunks))

\* C10: what stream_download has yielded is exactly the non-empty chunks
\* received so far, in order; this still holds once the body is exhausted.
C10_YieldsNonEmptyChunksInOrder ==
    /\ yielded = NonEmpty(received)
    /\ spc = "exhausted" => hpc = "done"

\* C10 witness: a body with an empty chunk in the middle was streamed out
C10_EmptyChunkSkipped ==
    /\ spc = "exhausted"
    /\ received = << <<"b">>, <<>>, <<"a">> >>
    /\ yielded = << <<"b">>, <<"a">> >>

\* C11: a non-2xx answer to the GET of stream_download fails the stream
\* before any chunk has been yielded.
C11_Non2xxFailsBeforeAnyChunk ==
    (status_code # 0 /\ ~(200 <= status_code /\ status_code < 300))
        => (spc = "failed" /\ gen_raised /\ yielded = <<>>)

CompletedWords == {"completed", "done", "success"}
FailedWords == {"failed", "error"}
NonTerminal(s) == LowerStatus(s) \notin (CompletedWords \cup FailedWords)

\* C12: the first completed answer of the status endpoint ends the polling
\* (while separate_audio is still polling, every answer so far was
\* non-terminal, and the wait returns the answer that ended it), and when the
\* task is then still completed and its payload lists a stem URL, the
\* returned mapping is non-empty: it names the listed stems.
C12_CompletedEndsPollingAndYieldsStems ==
    /\ (apc = "wait" /\ polls > 0) => NonTerminal(poll_status)
    /\ (apc = "waited" /\ final_status # "timeout") => final_status = poll_status
    /\ (apc = "done" /\ final_status \in CompletedWords
           /\ task_info.status \in CompletedWords /\ task_info.listed # {})
          => (stem_files # {} /\ stem_files = task_info.listed)

C12_ThreeProcessingThenCompleted ==
    /\ apc = "done"
    /\ polls = 4
    /\ final_status = "completed"
    /\ stem_files # {}

\* C13: status words are matched ignoring case in the whole workflow: a
\* completed word in any case makes separate_audio fetch the task's stems, a
\* failed word in any case ends it with nothing, any other word keeps it
\* polling.
C13_StatusMatchedIgnoringCase ==
    /\ (apc = "wait" /\ polls > 0) => NonTerminal(poll_status)
    /\ (apc = "done" /\ LowerStatus(final_status) \in FailedWords) => stem_files = {}
    /\ (apc = "done" /\ task_id # NoTask /\ LowerStatus(final_status) \in CompletedWords)
          => task_info # NoInfo

\* C14: a wait that never sees a terminal status ends: no status check is
\* started at or after max_wait_time, so at most max_wait_time \div
\* poll_interval checks are made; the wait then returns 'timeout' and
\* separate_audio returns an empty mapping without fetching anything.
C14_WaitEndsAtDeadlineWithTimeout ==
    /\ poll_at < max_wait_time
    /\ polls <= max_wait_time \div poll_interval
    /\ (apc = "waited" /\ final_status = "timeout") => elapsed >= max_wait_time
    /\ (apc = "done" /\ final_status = "timeout")
          => (stem_files = {} /\ disk = {} /\ task_info = NoInfo
              /\ NonTerminal(poll_status))

C14_TimedOutAfterLastCheck ==
    /\ apc = "done"
    /\ final_status = "timeout"
    /\ polls = max_wait_time \div poll_interval
    /\ stem_files = {}

\* C15: every stem named by the mapping that download_stems or
\* separate_audio returns has its file on disk.
C15_MappingNamesFilesOnDisk == stem_files \subseteq disk

\* C16: a token request is sent only while no token is held, a task request
\* (upload, status, download) only while one is held, and a successful
\* authentication leaves the token held for good, so that no token request
\* follows it.
C16_TokenRequestedOnlyWithoutToken ==
    /\ \A r \in sent : r.kind = "token" => ~r.held
    /\ \A r \in sent : r.kind # "token" => r.held
    /\ authed => access_token # NoToken

C16_StatusCallReusesToken ==
    /\ authed
    /\ apc = "idle"
    /\ sent = {Req("status", "token")}

\* C17: when separate_audio got no task id (authentication failed, the
\* upload failed, or its answer had no id) it returns an empty mapping and
\* has made no status check and no stem download.
C17_NoTaskNoPollNoDownload ==
    (apc = "done" /\ task_id = NoTask)
        => /\ stem_files = {}
           /\ disk = {}
           /\ polls = 0
           /\ task_info = NoInfo
           /\ \A r \in sent : r.kind \notin {"status", "download"}

C17_UploadAnsweredWithoutId ==
    /\ apc = "done"
    /\ task_id = NoTask
    /\ Req("upload", "token") \in sent

\* C18: when the separator returned an empty mapping, /api/separate-stems
\* answers with a JSON failure of status 500 and no archive has been built;
\* when it answers with an archive, the archive holds the original audio
\* besides the stems of the mapping.
C18_EmptyMappingIsFailureArchiveHasOriginal ==
    /\ (hpc = "done" /\ separated.ran /\ separated.stems = {})
          => (response = JsonFailure(500) /\ archive = NoArchive)
    /\ response.kind = "archive"
          => /\ archive.built
             /\ archive.original # NoAudio
             /\ separated.stems # {}
             /\ archive.stems = separated.present

C18_EmptyMappingAnswered ==
    /\ hpc = "done"
    /\ separated.ran
    /\ ~separated.raised
    /\ separated.stems = {}
    /\ response = JsonFailure(500)

Seps == SpaceChars \cup {"-"}
KeptAt(t) == {i \in 1..Len(t) : t[i] \in WordChars \cup Seps}
KeptBefore(t, i) == {j \in KeptAt(t) : j < i}
Last(I) == CHOOSE m \in I : \A j \in I : j <= m
First(I) == CHOOSE m \in I : \A j \in I : m <= j
\* a separator opens a run when the kept character before it is no separator
OpensRun(t, i) ==
    /\ t[i] \in Seps
    /\ (KeptBefore(t, i) = {} \/ t[Last(KeptBefore(t, i))] \notin Seps)
NamedAt(t) == {i \in KeptAt(t) : t[i] \in WordChars \/ OpensRun(t, i)}
RECURSIVE Spell(_, _)
Spell(t, I) ==
    IF I = {} THEN <<>>
    ELSE <<IF t[First(I)] \in WordChars THEN t[First(I)] ELSE "-">>
         \o Spell(t, I \ {First(I)})

\* C19: for a resolved download the file is named '<sanitized title>.<format>'
\* (of the title only its word characters survive, and one '-' for every
\* run of whitespace and hyphens; 'video' without a title) and the content
\* type is video/mp4 exactly when the format is mp4; 'My Song' with mp4 is
\* My-Song.mp4.
C19_FileNamedAfterSanitizedTitle ==
    response.kind = "stream"
        => /\ response.filename =
                 (IF ret.title = None \/ ret.title.chars = <<>>
                  THEN <<"video">>
                  ELSE Spell(ret.title.chars, NamedAt(ret.title.chars)))
                 \o <<".", IF ret.format = NoFormat THEN "mp4" ELSE ret.format>>
           /\ (response.content_type = "video/mp4") <=> (ret.format = "mp4")
           /\ (ret.title = Title(MySong) /\ ret.format = "mp4")
                 => response.filename = <<"M", "y", "-", "S", "o", "n", "g", ".", "mp4">>

C19_MySongMp4 ==
    /\ response.kind = "stream"
    /\ ret.title = Title(MySong)
    /\ ret.format = "mp4"
    /\ response.filename = <<"M", "y", "-", "S", "o", "n", "g", ".", "mp4">>
    /\ response.content_type = "video/mp4"

\* C20: no network session is open once the call that opened it is over:
\* the stream is exhausted or has failed, or separate_audio has returned.
C20_SessionsClosedAtExit ==
    /\ spc \in {"exhausted", "failed"} => stream_session # "open"
    /\ apc = "done" => client_session # "open"

\* C21: after the format-button phase the element scan comes first, the
\* page-source scan runs only when the element scan left download_url unset,
\* and the current-URL check only when both did; the first valid element,
\* or the first valid match of the earliest pattern that has one, ends the
\* scans and is the URL returned; the current-URL check resolves only to a
\* current URL that holds a media extension and is not the listing page.
C21_StrategiesInOrderFirstValidWins ==
    [][ /\ pc = "scan" => (~Truthy(download_url) /\ pc' \in {"scan", "source_open"})
        /\ (pc = "scan" /\ Truthy(download_url'))
              => (pc' = "source_open" /\ is_valid(download_url'))
        /\ (pc = "source_open" /\ Truthy(download_url))
              => (pc' = "final" /\ download_url' = download_url)
        /\ pc' = "source" => (pc \in {"source_open", "source"} /\ ~Truthy(download_url))
        /\ (pc = "source" /\ pc' = "source") => (si' >= si /\ ~Truthy(download_url'))
        /\ (pc = "source" /\ Truthy(download_url'))
              => /\ pc' = "final"
                 /\ si' = si
                 /\ download_url' \in SourceMatches(si)
                 /\ match_valid(download_url')
        /\ pc' = "final" => pc \in {"source_open", "source", "final"}
        /\ (pc = "final" /\ pc' # "final")
              => IF Truthy(download_url)
                 THEN /\ ret'.download_url = download_url
                      /\ current_url' = current_url
                 ELSE Truthy(ret'.download_url)
                         => /\ ret'.download_url = browser_url
                            /\ browser_url # base_url
                            /\ ContainsAny(Lower(browser_url), RedirectExts) ]_vars

C21_ResolvedByCurrentUrl ==
    /\ pc = "finally"
    /\ download_url = None
    /\ Truthy(ret.download_url)
    /\ ret.download_url = current_url

\* C22: the view functions of /, /api/status, /api/download,
\* /api/separate-stems and /api/logout are entered only with the session's
\* authenticated flag set, and the resolver and the separator run only
\* under it; the flag is set only by a login whose password equals
\* APP_PASSWORD and cleared only, and always, by a logout that was let in;
\* an unauthenticated request to a protected /api/ path is answered 401
\* without entering the view, the resolver or the separator.
C22_ProtectedHandlersNeedTheFlag ==
    [][ /\ (hpc \notin {"idle", "done"} \/ pc # "idle" \/ separated.ran) => authenticated
        /\ (hpc = "idle" /\ ran' /\ request'.path \in ProtectedPaths) => authenticated
        /\ (~authenticated /\ authenticated')
              => (request' = Request(LoginPath, APP_PASSWORD) /\ response' = JsonSuccess)
        /\ (authenticated /\ ~authenticated') => (request'.path = LogoutPath /\ ran')
        /\ (hpc = "idle" /\ ran' /\ request'.path = LogoutPath) => ~authenticated'
        /\ (hpc = "idle" /\ hpc' # "idle" /\ ~authenticated
              /\ request'.path \in ProtectedPaths /\ request'.path.dir = "/api/")
              => /\ response' = JsonFailure(401)
                 /\ ~ran'
                 /\ hpc' = "done"
                 /\ pc' = "idle"
                 /\ separated' = NotSeparated ]_vars

C22_LoggedOutAfterLogin ==
    /\ ~authenticated
    /\ hpc = "done"
    /\ request.path = LogoutPath
    /\ ran
    /\ response = JsonSuccess
====
